---- MODULE Spec2Model ----
(***************************************************************************)
(* The block store abstraction of blockstore/mod.rs: the Reader, Writer    *)
(* and Deleter capabilities, the OptimizedBlockStoreWriter protocol, the   *)
(* blanket adapter that derives BlockStoreWriter from it, and the          *)
(* BlockData wrapper generated by create_block_data_wrapper!.              *)
(*                                                                         *)
(* mod.rs holds the traits, the adapter and the wrapper.  The backends     *)
(* (mod inmemory, ondisk, ...) and crate::data::Data are declared there    *)
(* but live in other files; they are modelled from the specification and   *)
(* say so where they are defined.                                          *)
(***************************************************************************)
EXTENDS Integers, Sequences, FiniteSets, TLC

\* Longest payload a caller writes.
MaxLen == 2

\* Bytes of prefix slack the backend's allocate reserves for its header.
HeaderLen == 1

BlockIds == {"A", "B"}

\* u8 values, cut down to two representatives.
Byte == {0, 1}

Payloads == UNION {[1..n -> Byte] : n \in 0..MaxLen}

(***************************************************************************)
(* Result<T>, Option<T>                                                    *)
(***************************************************************************)
Ok(v) == [kind |-> "ok", val |-> v]

Err(e) == [kind |-> "err", val |-> e]

\* assert_eq! failing: the task unwinds, no Result is produced.
Panic == [kind |-> "panic", val |-> "assert_eq"]

NoResult == [kind |-> "none", val |-> "none"]

None == [some |-> FALSE, val |-> <<>>]

Some(x) == [some |-> TRUE, val |-> x]

(***************************************************************************)
(* crate::data::Data: a byte vector with a visible region that starts      *)
(* after `start` hidden bytes.                                             *)
(***************************************************************************)
DataView(d) == SubSeq(d.storage, d.start + 1, Len(d.storage))

DataWrite(d, src) ==
    [d EXCEPT !.storage = SubSeq(d.storage, 1, d.start) \o src]

\* Data::grow_region(n, 0): n more bytes of the prefix become visible.
DataGrowPrefix(d, n) == [d EXCEPT !.start = d.start - n]

(***************************************************************************)
(* create_block_data_wrapper!: struct $name(Data) and its impls            *)
(***************************************************************************)
BlockDataNew(data) == [inner |-> data]

BlockDataExtractView(bd) ==
    [storage |-> DataView(bd.inner), start |-> 0]

BlockDataExtract(bd) == bd.inner

\* The items one invocation create_block_data_wrapper!(name) expands to,
\* each with the type it is generated for.
CreateBlockDataWrapper(name) ==
    {[item |-> "struct", target |-> name],
     [item |-> "impl AsRef<[u8]>", target |-> "BlockData"],
     [item |-> "impl AsMut<[u8]>", target |-> "BlockData"],
     [item |-> "impl IBlockData", target |-> name]}

AsRefWhole(bd) == bd.inner.storage

AsRef(bd) == DataView(bd.inner)

CopyNothing(bd, src) == bd

CopyAllButLast(bd, src) ==
    [inner |-> DataWrite(bd.inner,
                  [i \in 1..Len(src) |-> IF i = Len(src) THEN 0 ELSE src[i]])]

\* as_mut().copy_from_slice(src); the slices have equal lengths.
CopyFromSlice(bd, src) == [inner |-> DataWrite(bd.inner, src)]

(***************************************************************************)
(* The backend behind OptimizedBlockStoreWriter and BlockStoreReader /     *)
(* BlockStoreDeleter.  A stored block is its header followed by its        *)
(* payload; the header goes into the prefix slack of the buffer.           *)
(***************************************************************************)
Absent == [present |-> FALSE, bytes |-> <<>>]

Stored(bytes) == [present |-> TRUE, bytes |-> bytes]

EmptyStore == [id \in BlockIds |-> Absent]

\* How far the visible view of what allocate returns is off the requested
\* size; 0 for a backend that honours the contract of allocate.
VARIABLE alloc_skew

ViewLen(size) == IF size + alloc_skew < 0 THEN 0 ELSE size + alloc_skew

Allocate(size) ==
    BlockDataNew([storage |-> [i \in 1..(HeaderLen + ViewLen(size)) |-> 0],
                  start |-> HeaderLen])

\* The header is written into the slack in place, the payload is not moved.
Physical(bd) ==
    LET d == BlockDataExtract(bd)
        grown == DataGrowPrefix(d, HeaderLen)
        withHeader == [grown EXCEPT !.storage =
                          [i \in 1..Len(d.storage) |->
                              IF i <= HeaderLen THEN 255 ELSE d.storage[i]]]
    IN  DataView(withHeader)

Payload(bytes) == SubSeq(bytes, HeaderLen + 1, Len(bytes))

Exists(st, id) == st[id].present

\* io = "fail": the storage access fails with an IoError, nothing is written.
\* try_create_optimized looks the id up, then writes the block.
CheckAbsent(st, id, io) ==
    IF io = "fail" THEN Err("IoError") ELSE Ok(~Exists(st, id))

WriteNew(st, id, bd, io) ==
    IF io = "fail" THEN [blocks |-> st, res |-> Err("IoError")]
    ELSE [blocks |-> [st EXCEPT ![id] = Stored(Physical(bd))], res |-> Ok(TRUE)]

TryCreateOptimized(st, id, bd, io) ==
    IF CheckAbsent(st, id, io) = Ok(TRUE) THEN WriteNew(st, id, bd, io)
    ELSE IF CheckAbsent(st, id, io) = Ok(FALSE)
    THEN [blocks |-> st, res |-> Ok(FALSE)]
    ELSE [blocks |-> st, res |-> CheckAbsent(st, id, io)]

StoreOptimized(st, id, bd, io) ==
    IF io = "fail" THEN [blocks |-> st, res |-> Err("IoError")]
    ELSE [blocks |-> [st EXCEPT ![id] = Stored(Physical(bd))], res |-> Ok("unit")]

RemoveKeep(st, id, io) ==
    IF io = "fail" THEN [blocks |-> st, res |-> Err("IoError")]
    ELSE [blocks |-> st, res |-> Ok(Exists(st, id))]

RemoveBlock(st, id, io) ==
    IF io = "fail" THEN [blocks |-> st, res |-> Err("IoError")]
    ELSE [blocks |-> [st EXCEPT ![id] = Absent], res |-> Ok(Exists(st, id))]

LoadAbsentIsError(st, id, io) ==
    IF io = "fail" \/ ~Exists(st, id) THEN Err("IoError")
    ELSE Ok(Some(Payload(st[id].bytes)))

LoadBlock(st, id, io) ==
    IF io = "fail" THEN Err("IoError")
    ELSE IF Exists(st, id) THEN Ok(Some(Payload(st[id].bytes)))
    ELSE Ok(None)

NumBlocksOf(st) == Ok(Cardinality({id \in BlockIds : Exists(st, id)}))

(***************************************************************************)
(* impl<B: OptimizedBlockStoreWriter> BlockStoreWriter for B               *)
(***************************************************************************)
OptCall(fn, id, bd, ret) == [fn |-> fn, id |-> id, data |-> bd, ret |-> ret]

Outcome(st, res, log) == [blocks |-> st, res |-> res, log |-> log]

AdapterFillNoAssert(data) ==
    [ok |-> TRUE, block_data |-> CopyFromSlice(Allocate(Len(data)), data)]

AdapterFillNoCopy(data) ==
    LET block_data == Allocate(Len(data))
    IN  IF Len(AsRef(block_data)) # Len(data)
        THEN [ok |-> FALSE, block_data |-> block_data]
        ELSE [ok |-> TRUE, block_data |-> block_data]

\* let mut block_data = Self::allocate(data.len());
\* assert_eq!(block_data.as_ref().len(), data.len());
\* block_data.as_mut().copy_from_slice(data);
AdapterFill(data) ==
    LET block_data == Allocate(Len(data))
    IN  IF Len(AsRef(block_data)) # Len(data)
        THEN [ok |-> FALSE, block_data |-> block_data]
        ELSE [ok |-> TRUE, block_data |-> CopyFromSlice(block_data, data)]

AdapterTryCreateAwaitAsStore(st, id, block_data, io) ==
    LET r == StoreOptimized(st, id, block_data, io)
    IN  Outcome(r.blocks, IF r.res.kind = "ok" THEN Ok(TRUE) ELSE r.res,
                <<OptCall("store_optimized", id, block_data, r.res)>>)

\* self.try_create_optimized(id, block_data).await
AdapterTryCreateAwait(st, id, block_data, io) ==
    LET r == TryCreateOptimized(st, id, block_data, io)
    IN  Outcome(r.blocks, r.res,
                <<OptCall("try_create_optimized", id, block_data, r.res)>>)

AdapterStoreAwaitNoDelegate(st, id, block_data, io) ==
    Outcome(st, Ok("unit"), <<>>)

AdapterStoreAwaitIgnoresError(st, id, block_data, io) ==
    LET r == StoreOptimized(st, id, block_data, io)
    IN  Outcome(r.blocks, Ok("unit"),
                <<OptCall("store_optimized", id, block_data, r.res)>>)

\* self.store_optimized(id, block_data).await
AdapterStoreAwait(st, id, block_data, io) ==
    LET r == StoreOptimized(st, id, block_data, io)
    IN  Outcome(r.blocks, r.res,
                <<OptCall("store_optimized", id, block_data, r.res)>>)

AdapterTryCreate(st, id, data, io) ==
    LET f == AdapterFill(data)
    IN  IF ~f.ok THEN Outcome(st, Panic, <<>>)
        ELSE AdapterTryCreateAwait(st, id, f.block_data, io)

AdapterStore(st, id, data, io) ==
    LET f == AdapterFill(data)
    IN  IF ~f.ok THEN Outcome(st, Panic, <<>>)
        ELSE AdapterStoreAwait(st, id, f.block_data, io)

(***************************************************************************)
(* BlockStoreReader::block_size_from_physical_block_size in a stack of     *)
(* layered backends.  A layer is given by its per-block overhead; it takes *)
(* its overhead off the size it is given and asks its inner backend with   *)
(* the rest.  Sizes are u64, scaled down to WordBits bits.                 *)
(***************************************************************************)
\* Most layers in a stack, the physical backend counted.
MaxLayers == 3

\* Largest per-block overhead of a layer.
MaxOverhead == 2

\* Largest physical block size asked about.
MaxPhysical == 6

\* Width of the unsigned size type.
WordBits == 4

WordModulus == 2 ^ WordBits

Stacks == UNION {[1..n -> 0..MaxOverhead] : n \in 1..MaxLayers}

RECURSIVE SumOverheads(_)
SumOverheads(layers) ==
    IF layers = <<>> THEN 0 ELSE Head(layers) + SumOverheads(Tail(layers))

LayerBlockSizeWrapping(overhead, size) ==
    Ok((size - overhead) % WordModulus)

\* A usable size that would not be positive is a configuration error.
LayerBlockSize(overhead, size) ==
    IF size <= overhead THEN Err("ConfigurationError")
    ELSE Ok(size - overhead)

StackBlockSizeNoDelegate(layers, size) == LayerBlockSize(Head(layers), size)

RECURSIVE StackBlockSize(_, _)
StackBlockSize(layers, size) ==
    LET own == LayerBlockSize(Head(layers), size)
    IN  IF own.kind = "err" \/ Len(layers) = 1 THEN own
        ELSE StackBlockSize(Tail(layers), own.val)

(***************************************************************************)
(* Layered backends: each owns an inner BlockStore, transforms the bytes   *)
(* it is given on write and inverts the transform on read.  The innermost  *)
(* is a physical backend, written to through the adapter above.            *)
(***************************************************************************)
LayerKinds == {"encrypted", "integrity"}

LayerStacks == UNION {[1..n -> LayerKinds] : n \in 0..(MaxLayers - 1)}

StackPayloads == {<<>>} \cup [1..MaxLen -> Byte]

\* An IV in front of the ciphertext.
Encrypt(bytes) == <<170>> \o [i \in 1..Len(bytes) |-> 255 - bytes[i]]

Decrypt(bytes) ==
    IF Len(bytes) = 0 THEN Err("IoError")
    ELSE Ok([i \in 1..(Len(bytes) - 1) |-> 255 - bytes[i + 1]])

RECURSIVE SumBytes(_)
SumBytes(bytes) ==
    IF bytes = <<>> THEN 0 ELSE Head(bytes) + SumBytes(Tail(bytes))

Tag(bytes) == (SumBytes(bytes) + Len(bytes)) % 256

\* A tag over the bytes in front of them.
Protect(bytes) == <<Tag(bytes)>> \o bytes

Verify(bytes) ==
    IF Len(bytes) = 0 \/ bytes[1] # Tag(Tail(bytes)) THEN Err("IoError")
    ELSE Ok(Tail(bytes))

WrapFor(kind, bytes) ==
    IF kind = "encrypted" THEN Encrypt(bytes) ELSE Protect(bytes)

UnwrapFor(kind, bytes) ==
    IF kind = "encrypted" THEN Decrypt(bytes) ELSE Verify(bytes)

\* layers[1] is the top of the stack.
RECURSIVE StackWrap(_, _)
StackWrap(layers, bytes) ==
    IF layers = <<>> THEN bytes
    ELSE StackWrap(Tail(layers), WrapFor(Head(layers), bytes))

RECURSIVE StackUnwrap(_, _)
StackUnwrap(layers, bytes) ==
    IF layers = <<>> THEN Ok(bytes)
    ELSE LET below == StackUnwrap(Tail(layers), bytes)
         IN  IF below.kind = "err" THEN below
             ELSE UnwrapFor(Head(layers), below.val)

StackTryCreate(layers, st, id, data) ==
    AdapterTryCreate(st, id, StackWrap(layers, data), "ok")

StackStore(layers, st, id, data) ==
    AdapterStore(st, id, StackWrap(layers, data), "ok")

StackRemove(layers, st, id) == RemoveBlock(st, id, "ok")

StackLoad(layers, st, id) ==
    LET below == LoadBlock(st, id, "ok")
        plain == StackUnwrap(layers, below.val.val)
    IN  IF below.kind = "err" \/ ~below.val.some THEN below
        ELSE IF plain.kind = "err" THEN plain
        ELSE Ok(Some(plain.val))

StackNumBlocks(layers, st) == NumBlocksOf(st)

\* A plain map from BlockId to bytes.
EmptyMap == [id \in BlockIds |-> None]

MapTryCreate(m, id, data) ==
    IF m[id].some THEN [map |-> m, res |-> Ok(FALSE)]
    ELSE [map |-> [m EXCEPT ![id] = Some(data)], res |-> Ok(TRUE)]

MapStore(m, id, data) ==
    [map |-> [m EXCEPT ![id] = Some(data)], res |-> Ok("unit")]

MapRemove(m, id) ==
    [map |-> [m EXCEPT ![id] = None], res |-> Ok(m[id].some)]

MapLoad(m, id) == Ok(m[id])

MapNumBlocks(m) == Ok(Cardinality({id \in BlockIds : m[id].some}))

NewStack(layers) ==
    [layers |-> layers, inner |-> EmptyStore, map |-> EmptyMap,
     op |-> "none", id |-> "A", res |-> NoResult, expect |-> NoResult]

(***************************************************************************)
(* State                                                                   *)
(***************************************************************************)
Procs == {1, 2}

\* What concurrent callers write: full-length payloads of one byte value.
RacePayloads == {[i \in 1..MaxLen |-> b] : b \in Byte}

IoOutcomes == {"ok", "fail"}

VARIABLES
    blocks,     \* the backend's committed blocks
    oracle,     \* ids a caller believes to exist, from the results it got
    last,       \* the call that completed last: its arguments, its result,
                \* the store before it and the optimized calls it made
    calls,      \* the call each concurrent caller has in flight
    stack,      \* a stack of layered backends over a physical one
    probe       \* the last application of a function of the module

vars == <<blocks, oracle, last, calls, alloc_skew, stack, probe>>

\* What the calls on one backend leave alone.
others == <<alloc_skew, stack, probe>>

\* The id the call before this one removed (its remove returned true).
JustRemoved ==
    IF last.op = "remove" /\ last.res = Ok(TRUE) THEN last.id ELSE "none"

Call(op, id, data, res, pre, log, io) ==
    [op |-> op, id |-> id, data |-> data, res |-> res, pre |-> pre, log |-> log,
     io |-> io, after_remove_of |-> JustRemoved]

NoBuf == BlockDataNew([storage |-> <<>>, start |-> 0])

\* buf: the BlockData the call owns; handed: the optimized calls it has been
\* passed to.
\* start: the block of the call's id when the call was made; alone: no
\* call of another caller on the same id has been in flight with it.
Idle == [pc |-> "idle", op |-> "none", id |-> "A", data |-> <<>>,
         buf |-> NoBuf, res |-> NoResult, start |-> Absent, alone |-> TRUE,
         handed |-> 0]

NoProbe == [fn |-> "none", arg |-> <<>>, out |-> <<>>]

NoStack == NewStack(<<>>)

Init ==
    /\ blocks = EmptyStore
    /\ oracle = {}
    /\ last = [op |-> "none", id |-> "A", data |-> <<>>, res |-> NoResult,
               pre |-> EmptyStore, log |-> <<>>, io |-> "ok",
               after_remove_of |-> "none"]
    /\ calls = [p \in Procs |-> Idle]
    /\ alloc_skew = 0
    /\ stack = NoStack
    /\ probe = NoProbe

(***************************************************************************)
(* One caller, each call run to completion                                 *)
(***************************************************************************)
TryCreate(id, data, io) ==
    LET r == AdapterTryCreate(blocks, id, data, io)
    IN  /\ blocks' = r.blocks
        /\ oracle' = IF r.res = Ok(TRUE) THEN oracle \cup {id} ELSE oracle
        /\ last' = Call("try_create", id, data, r.res, blocks, r.log, io)
        /\ UNCHANGED <<calls, others>>

Store(id, data, io) ==
    LET r == AdapterStore(blocks, id, data, io)
    IN  /\ blocks' = r.blocks
        /\ oracle' = IF r.res.kind = "ok" THEN oracle \cup {id} ELSE oracle
        /\ last' = Call("store", id, data, r.res, blocks, r.log, io)
        /\ UNCHANGED <<calls, others>>

\* The caller allocates, fills the view itself and calls store_optimized.
StoreDirect(id, data, io) ==
    LET bd == CopyFromSlice(Allocate(Len(data)), data)
        r == StoreOptimized(blocks, id, bd, io)
    IN  /\ blocks' = r.blocks
        /\ oracle' = IF r.res.kind = "ok" THEN oracle \cup {id} ELSE oracle
        /\ last' = Call("store_optimized", id, data, r.res, blocks,
                        <<OptCall("store_optimized", id, bd, r.res)>>, io)
        /\ UNCHANGED <<calls, others>>

TryCreateDirect(id, data, io) ==
    LET bd == CopyFromSlice(Allocate(Len(data)), data)
        r == TryCreateOptimized(blocks, id, bd, io)
    IN  /\ blocks' = r.blocks
        /\ oracle' = IF r.res = Ok(TRUE) THEN oracle \cup {id} ELSE oracle
        /\ last' = Call("try_create_optimized", id, data, r.res, blocks,
                        <<OptCall("try_create_optimized", id, bd, r.res)>>, io)
        /\ UNCHANGED <<calls, others>>

Remove(id, io) ==
    LET r == RemoveBlock(blocks, id, io)
    IN  /\ blocks' = r.blocks
        /\ oracle' = IF r.res = Ok(TRUE) THEN oracle \ {id} ELSE oracle
        /\ last' = Call("remove", id, <<>>, r.res, blocks, <<>>, io)
        /\ UNCHANGED <<calls, others>>

Load(id, io) ==
    /\ last' = Call("load", id, <<>>, LoadBlock(blocks, id, io), blocks, <<>>, io)
    /\ UNCHANGED <<blocks, oracle, calls, others>>

NumBlocks ==
    /\ last' = Call("num_blocks", "A", <<>>, NumBlocksOf(blocks), blocks, <<>>,
                    "ok")
    /\ UNCHANGED <<blocks, oracle, calls, others>>

\* The in-memory backend: no storage access fails.
Next ==
    \/ \E id \in BlockIds, data \in Payloads : TryCreate(id, data, "ok")
    \/ \E id \in BlockIds, data \in Payloads : Store(id, data, "ok")
    \/ \E id \in BlockIds, data \in Payloads : StoreDirect(id, data, "ok")
    \/ \E id \in BlockIds, data \in Payloads : TryCreateDirect(id, data, "ok")
    \/ \E id \in BlockIds : Remove(id, "ok")
    \/ \E id \in BlockIds : Load(id, "ok")
    \/ NumBlocks

Spec == Init /\ [][Next]_vars

\* A backend whose storage accesses may fail with an IoError.
NextIo ==
    \/ \E id \in BlockIds, data \in Payloads, io \in IoOutcomes :
          TryCreate(id, data, io)
    \/ \E id \in BlockIds, data \in Payloads, io \in IoOutcomes :
          Store(id, data, io)
    \/ \E id \in BlockIds, io \in IoOutcomes : Remove(id, io)
    \/ \E id \in BlockIds, io \in IoOutcomes : Load(id, io)
    \/ NumBlocks

SpecIo == Init /\ [][NextIo]_vars

\* Backends whose allocate returns a view one byte shorter or longer than
\* asked for, next to one that honours the contract.
Skews == {-1, 0, 1}

InitSkew ==
    /\ blocks = EmptyStore
    /\ oracle = {}
    /\ last = [op |-> "none", id |-> "A", data |-> <<>>, res |-> NoResult,
               pre |-> EmptyStore, log |-> <<>>, io |-> "ok",
               after_remove_of |-> "none"]
    /\ calls = [p \in Procs |-> Idle]
    /\ alloc_skew \in Skews
    /\ stack = NoStack
    /\ probe = NoProbe

NextSkew ==
    \/ \E id \in BlockIds, data \in Payloads : TryCreate(id, data, "ok")
    \/ \E id \in BlockIds, data \in Payloads : Store(id, data, "ok")
    \/ \E id \in BlockIds : Remove(id, "ok")
    \/ \E id \in BlockIds : Load(id, "ok")
    \/ NumBlocks

SpecSkew == InitSkew /\ [][NextSkew]_vars

(***************************************************************************)
(* Concurrent callers.  A call is a future: created by the call, it runs   *)
(* when polled, suspends where it awaits the backend, and is cancelled by  *)
(* being dropped.  The backend's try_create_optimized looks the id up and  *)
(* then writes, in two storage accesses.                                   *)
(***************************************************************************)
InFlight == {"called", "awaiting", "checked"}

ResolveKeepsBuffer(p, res) ==
    [calls EXCEPT ![p].pc = "returned", ![p].res = res]

\* The optimized call took block_data by value: it is gone with the call.
Resolve(p, res) ==
    [calls EXCEPT ![p].pc = "returned", ![p].res = res, ![p].buf = NoBuf]

Begin(p, op, id, data) ==
    [q \in Procs |->
        IF q = p
        THEN [Idle EXCEPT !.pc = "called", !.op = op, !.id = id,
                          !.data = data, !.start = blocks[id],
                          !.alone = \A r \in Procs \ {p} :
                                       ~(calls[r].pc \in InFlight
                                         /\ calls[r].id = id)]
        ELSE IF calls[q].pc \in InFlight /\ calls[q].id = id
        THEN [calls[q] EXCEPT !.alone = FALSE]
        ELSE calls[q]]

InvokeTryCreate(p, id, data) ==
    /\ calls[p].pc = "idle"
    /\ calls' = Begin(p, "try_create", id, data)
    /\ UNCHANGED <<blocks, oracle, last, others>>

InvokeStore(p, id, data) ==
    /\ calls[p].pc = "idle"
    /\ calls' = Begin(p, "store", id, data)
    /\ UNCHANGED <<blocks, oracle, last, others>>

InvokeRemove(p, id) ==
    /\ calls[p].pc = "idle"
    /\ calls' = Begin(p, "remove", id, <<>>)
    /\ UNCHANGED <<blocks, oracle, last, others>>

\* First poll of try_create / store: up to the .await of the optimized call.
Prepare(p) ==
    /\ calls[p].pc = "called"
    /\ calls[p].op \in {"try_create", "store"}
    /\ LET f == AdapterFill(calls[p].data)
       IN  calls' = IF f.ok
                    THEN [calls EXCEPT ![p].pc = "awaiting",
                                       ![p].buf = f.block_data,
                                       ![p].handed = 1]
                    ELSE Resolve(p, Panic)
    /\ UNCHANGED <<blocks, oracle, last, others>>

TryCreateCheck(p, io) ==
    /\ calls[p].pc = "awaiting"
    /\ calls[p].op = "try_create"
    /\ LET c == CheckAbsent(blocks, calls[p].id, io)
       IN  calls' = IF c = Ok(TRUE)
                    THEN [calls EXCEPT ![p].pc = "checked"]
                    ELSE Resolve(p, c)
    /\ UNCHANGED <<blocks, oracle, last, others>>

TryCreateWrite(p, io) ==
    /\ calls[p].pc = "checked"
    /\ LET r == WriteNew(blocks, calls[p].id, calls[p].buf, io)
       IN  /\ blocks' = r.blocks
           /\ oracle' = IF r.res = Ok(TRUE) THEN oracle \cup {calls[p].id}
                        ELSE oracle
           /\ calls' = Resolve(p, r.res)
    /\ UNCHANGED <<last, others>>

StoreCommit(p, io) ==
    /\ calls[p].pc = "awaiting"
    /\ calls[p].op = "store"
    /\ LET r == AdapterStoreAwait(blocks, calls[p].id, calls[p].buf, io)
       IN  /\ blocks' = r.blocks
           /\ oracle' = IF r.res.kind = "ok" THEN oracle \cup {calls[p].id}
                        ELSE oracle
           /\ calls' = Resolve(p, r.res)
    /\ UNCHANGED <<last, others>>

RemoveCommit(p, io) ==
    /\ calls[p].pc = "called"
    /\ calls[p].op = "remove"
    /\ LET r == RemoveBlock(blocks, calls[p].id, io)
       IN  /\ blocks' = r.blocks
           /\ oracle' = IF r.res = Ok(TRUE) THEN oracle \ {calls[p].id}
                        ELSE oracle
           /\ calls' = Resolve(p, r.res)
    /\ UNCHANGED <<last, others>>

\* The caller drops the future before it has resolved.
Cancel(p) ==
    /\ calls[p].pc \in InFlight
    /\ calls' = [calls EXCEPT ![p].pc = "cancelled",
                              ![p].buf = NoBuf,
                              ![p].res = [kind |-> "cancelled",
                                          val |-> calls[p].pc]]
    /\ UNCHANGED <<blocks, oracle, last, others>>

\* The caller takes the result and is free to call again.
Return(p) ==
    /\ calls[p].pc \in {"returned", "cancelled"}
    /\ calls' = [calls EXCEPT ![p] = Idle]
    /\ UNCHANGED <<blocks, oracle, last, others>>

NextConc ==
    \/ \E p \in Procs, id \in BlockIds, data \in RacePayloads :
          InvokeTryCreate(p, id, data)
    \/ \E p \in Procs, id \in BlockIds, data \in RacePayloads :
          InvokeStore(p, id, data)
    \/ \E p \in Procs, id \in BlockIds : InvokeRemove(p, id)
    \/ \E p \in Procs : Prepare(p)
    \/ \E p \in Procs, io \in IoOutcomes : TryCreateCheck(p, io)
    \/ \E p \in Procs, io \in IoOutcomes : TryCreateWrite(p, io)
    \/ \E p \in Procs, io \in IoOutcomes : StoreCommit(p, io)
    \/ \E p \in Procs, io \in IoOutcomes : RemoveCommit(p, io)
    \/ \E p \in Procs : Cancel(p)
    \/ \E p \in Procs : Return(p)

SpecConc == Init /\ [][NextConc]_vars

(***************************************************************************)
(* One caller on top of a stack of layered backends, and the same calls    *)
(* on a plain map                                                          *)
(***************************************************************************)
InitStack ==
    /\ blocks = EmptyStore
    /\ oracle = {}
    /\ last = [op |-> "none", id |-> "A", data |-> <<>>, res |-> NoResult,
               pre |-> EmptyStore, log |-> <<>>, io |-> "ok",
               after_remove_of |-> "none"]
    /\ calls = [p \in Procs |-> Idle]
    /\ alloc_skew = 0
    /\ stack \in {NewStack(layers) : layers \in LayerStacks}
    /\ probe = NoProbe

StackCalled(op, id, top, plain) ==
    /\ stack' = [stack EXCEPT !.inner = top.blocks, !.map = plain.map,
                              !.op = op, !.id = id,
                              !.res = top.res, !.expect = plain.res]
    /\ UNCHANGED <<blocks, oracle, last, calls, alloc_skew, probe>>

TopTryCreate(id, data) ==
    StackCalled("try_create", id,
                StackTryCreate(stack.layers, stack.inner, id, data),
                MapTryCreate(stack.map, id, data))

TopStore(id, data) ==
    StackCalled("store", id,
                StackStore(stack.layers, stack.inner, id, data),
                MapStore(stack.map, id, data))

TopRemove(id) ==
    StackCalled("remove", id,
                StackRemove(stack.layers, stack.inner, id),
                MapRemove(stack.map, id))

TopLoad(id) ==
    StackCalled("load", id,
                [blocks |-> stack.inner,
                 res |-> StackLoad(stack.layers, stack.inner, id)],
                [map |-> stack.map, res |-> MapLoad(stack.map, id)])

TopNumBlocks ==
    StackCalled("num_blocks", "A",
                [blocks |-> stack.inner,
                 res |-> StackNumBlocks(stack.layers, stack.inner)],
                [map |-> stack.map, res |-> MapNumBlocks(stack.map)])

NextStack ==
    \/ \E id \in BlockIds, data \in StackPayloads : TopTryCreate(id, data)
    \/ \E id \in BlockIds, data \in StackPayloads : TopStore(id, data)
    \/ \E id \in BlockIds : TopRemove(id)
    \/ \E id \in BlockIds : TopLoad(id)
    \/ TopNumBlocks

SpecStack == InitStack /\ [][NextStack]_vars

(***************************************************************************)
(* Functions of the module applied to drawn arguments                      *)
(***************************************************************************)
Probe(fn, arg, out) == [fn |-> fn, arg |-> arg, out |-> out]

BlockSizeFromPhysical(layers, size) ==
    /\ probe' = Probe("block_size_from_physical_block_size",
                      [layers |-> layers, size |-> size],
                      StackBlockSize(layers, size))
    /\ UNCHANGED <<blocks, oracle, last, calls, alloc_skew, stack>>

NextPure ==
    \/ \E layers \in Stacks, size \in 0..MaxPhysical :
          BlockSizeFromPhysical(layers, size)

SpecPure == Init /\ [][NextPure]_vars

(***************************************************************************)
(* A wrapper type generated by create_block_data_wrapper!, and one wrapper *)
(* from construction to extraction                                         *)
(***************************************************************************)
Datas ==
    {d \in {[storage |-> bytes, start |-> k] :
                bytes \in UNION {[1..n -> Byte] : n \in 0..(HeaderLen + MaxLen)},
                k \in 0..HeaderLen} :
        d.start <= Len(d.storage)}

WrapperNames == {"BlockData", "InMemoryBlockData", "OnDiskBlockData"}

Wrapped(d, bd, src, written) ==
    [d |-> d, bd |-> bd, src |-> src, written |-> written]

Expand(name) ==
    /\ probe' = Probe("create_block_data_wrapper", name,
                      CreateBlockDataWrapper(name))
    /\ UNCHANGED <<blocks, oracle, last, calls, alloc_skew, stack>>

\* IBlockData::new(d)
New(d) ==
    /\ probe' = Probe("new", Wrapped(d, BlockDataNew(d), <<>>, FALSE),
                      BlockDataNew(d))
    /\ UNCHANGED <<blocks, oracle, last, calls, alloc_skew, stack>>

\* as_mut() gives a &mut [u8]: its bytes can be overwritten, by as many.
AsMutWrite(src) ==
    /\ probe.fn \in {"new", "as_mut"}
    /\ Len(src) = Len(AsRef(probe.out))
    /\ probe' = Probe("as_mut", Wrapped(probe.arg.d, probe.out, src, TRUE),
                      CopyFromSlice(probe.out, src))
    /\ UNCHANGED <<blocks, oracle, last, calls, alloc_skew, stack>>

\* IBlockData::extract(self)
Extract ==
    /\ probe.fn \in {"new", "as_mut"}
    /\ probe' = Probe("extract",
                      Wrapped(probe.arg.d, probe.out, probe.arg.src,
                              probe.arg.written),
                      BlockDataExtract(probe.out))
    /\ UNCHANGED <<blocks, oracle, last, calls, alloc_skew, stack>>

NextWrapper ==
    \/ \E name \in WrapperNames : Expand(name)
    \/ \E d \in Datas : New(d)
    \/ \E src \in UNION {[1..n -> Byte] : n \in 0..(HeaderLen + MaxLen)} :
          AsMutWrite(src)
    \/ Extract

SpecWrapper == Init /\ [][NextWrapper]_vars

(***************************************************************************)
(* Properties                                                              *)
(***************************************************************************)
\* What load(id) returns when called in the current state.
LoadNow(id) == LoadBlock(blocks, id, "ok")

\* C1: store(id, bytes) succeeds whether or not id existed, and load(id)
\* right after it returns exactly bytes, replacing any earlier content.
C1_StoreThenLoad ==
    last.op = "store" =>
        /\ last.res = Ok("unit")
        /\ LoadNow(last.id) = Ok(Some(last.data))

\* A store that replaced a block holding other, longer content.
C1_Witness ==
    /\ last.op = "store"
    /\ Exists(last.pre, last.id)
    /\ Len(Payload(last.pre[last.id].bytes)) = MaxLen
    /\ Len(last.data) = 1
    /\ LoadNow(last.id) = Ok(Some(last.data))

\* C2: try_create(id, bytes) on an id that does not exist (never created, or
\* created and removed) returns true and load(id) then returns bytes.
C2_TryCreateFresh ==
    (last.op = "try_create" /\ ~Exists(last.pre, last.id)) =>
        /\ last.res = Ok(TRUE)
        /\ LoadNow(last.id) = Ok(Some(last.data))

\* A try_create of an id whose block the call before it removed.
C2_Witness ==
    /\ last.op = "try_create"
    /\ last.after_remove_of = last.id
    /\ Len(last.data) = MaxLen
    /\ last.res = Ok(TRUE)
    /\ LoadNow(last.id) = Ok(Some(last.data))

\* C3: try_create on an existing id returns false and changes nothing: load
\* of it, num_blocks and every other block are as before.
C3_TryCreateExisting ==
    (last.op = "try_create" /\ Exists(last.pre, last.id)) =>
        /\ last.res = Ok(FALSE)
        /\ LoadNow(last.id) = LoadBlock(last.pre, last.id, "ok")
        /\ NumBlocksOf(blocks) = NumBlocksOf(last.pre)
        /\ blocks = last.pre

\* A refused try_create that offered other content, with a second block
\* in the store.
C3_Witness ==
    /\ last.op = "try_create"
    /\ last.res = Ok(FALSE)
    /\ Payload(last.pre[last.id].bytes) # last.data
    /\ \A id \in BlockIds : Exists(blocks, id)

\* C4: remove on an existing id returns true and load then returns none;
\* remove on a missing id returns false and leaves the store as it was, so
\* a remove right after a successful remove of the same id returns false.
C4_Remove ==
    last.op = "remove" =>
        /\ Exists(last.pre, last.id) =>
              last.res = Ok(TRUE) /\ LoadNow(last.id) = Ok(None)
        /\ ~Exists(last.pre, last.id) =>
              last.res = Ok(FALSE) /\ blocks = last.pre
        /\ last.after_remove_of = last.id => last.res = Ok(FALSE)

\* The second of two removes of the same id, the other block still there.
C4_Witness ==
    /\ last.op = "remove"
    /\ last.after_remove_of = last.id
    /\ last.res = Ok(FALSE)
    /\ \E id \in BlockIds : Exists(blocks, id)

\* C8: allocate(n) has a visible view of exactly n bytes, and n bytes
\* written into it and passed to store_optimized are what load returns.
C8_AllocateRoundTrip ==
    /\ \A n \in 0..MaxLen : Len(AsRef(Allocate(n))) = n
    /\ last.op = "store_optimized" =>
          /\ Len(AsRef(last.log[1].data)) = Len(last.data)
          /\ AsRef(last.log[1].data) = last.data
          /\ LoadNow(last.id) = Ok(Some(last.data))

\* A full-length payload round-tripped through a buffer with prefix slack.
C8_Witness ==
    /\ last.op = "store_optimized"
    /\ Len(last.data) = MaxLen
    /\ Len(last.log[1].data.inner.storage) > Len(last.data)
    /\ Len(blocks[last.id].bytes) > Len(last.data)
    /\ LoadNow(last.id) = Ok(Some(last.data))

\* C5: through the adapter, try_create (store) makes exactly one call of
\* try_create_optimized (store_optimized), with a buffer from allocate whose
\* visible view is len(bytes) long and holds bytes, and returns that call's
\* result, an error included; the store ends as it does when the optimized
\* operation is called directly with a buffer holding bytes.
DirectBuffer(data) == CopyFromSlice(Allocate(Len(data)), data)

DirectOutcome ==
    IF last.op = "try_create"
    THEN TryCreateOptimized(last.pre, last.id, DirectBuffer(last.data), last.io)
    ELSE StoreOptimized(last.pre, last.id, DirectBuffer(last.data), last.io)

C5_AdapterEquivalence ==
    last.op \in {"try_create", "store"} =>
        /\ Len(last.log) = 1
        /\ last.log[1].fn = last.op \o "_optimized"
        /\ last.log[1].id = last.id
        /\ Len(AsRef(last.log[1].data)) = Len(last.data)
        /\ AsRef(last.log[1].data) = last.data
        /\ Len(last.log[1].data.inner.storage) =
              Len(Allocate(Len(last.data)).inner.storage)
        /\ last.res = last.log[1].ret
        /\ last.res = DirectOutcome.res
        /\ blocks = DirectOutcome.blocks

\* A store over an existing block whose store_optimized failed: the error
\* came back and the block is as it was.
C5_Witness ==
    /\ last.op = "store"
    /\ last.res.kind = "err"
    /\ Len(last.log) = 1
    /\ last.log[1].ret = Err("IoError")
    /\ Len(last.data) = MaxLen
    /\ Exists(last.pre, last.id)
    /\ blocks = last.pre

\* Caller p's call resolves in this step.
Resolves(p) == calls[p].pc \in InFlight /\ calls'[p].pc = "returned"

\* C6: whenever one of several racing try_create calls of an id returns
\* true, the block exists with exactly the content of that call, whether
\* both, one or none of the racers return true.
C6_RaceStep ==
    \A p \in Procs :
        (/\ Resolves(p)
         /\ calls[p].op = "try_create"
         /\ calls'[p].res.kind = "ok"
         /\ calls'[p].res = Ok(TRUE)) =>
            LoadBlock(blocks', calls[p].id, "ok") = Ok(Some(calls[p].data))

C6_RacePostcondition == [][C6_RaceStep]_vars

\* Both racers returned true for the same id with different contents.
C6_Witness ==
    /\ \A p \in Procs : /\ calls[p].pc = "returned"
                        /\ calls[p].op = "try_create"
                        /\ calls[p].id = "A"
                        /\ calls[p].res = Ok(TRUE)
    /\ calls[1].data # calls[2].data
    /\ LoadNow("A") = Ok(Some(calls[2].data))

\* C7: a try_create or store that fails or is cancelled leaves the store as
\* it was, and a block only ever changes to the complete content of a call
\* that succeeds in that step (or to nothing, by a remove).
C7_Step ==
    /\ \A p \in Procs :
          (/\ calls[p].pc \in InFlight
           /\ \/ calls'[p].pc = "cancelled"
              \/ calls'[p].pc = "returned" /\ calls'[p].res.kind # "ok") =>
              blocks' = blocks
    /\ \A id \in BlockIds :
          blocks'[id] # blocks[id] =>
              \E p \in Procs :
                  /\ Resolves(p)
                  /\ calls[p].id = id
                  /\ calls'[p].res.kind = "ok"
                  /\ IF calls[p].op = "remove"
                     THEN ~Exists(blocks', id)
                     ELSE LoadBlock(blocks', id, "ok") =
                              Ok(Some(calls[p].data))

C7_AllOrNothing == [][C7_Step]_vars

\* One try_create was dropped between its lookup and its write, the other
\* caller's store of the same id failed; the id still has its old block.
C7_Witness ==
    /\ calls[1].pc = "cancelled"
    /\ calls[1].op = "try_create"
    /\ calls[1].res.val = "checked"
    /\ calls[2].pc = "returned"
    /\ calls[2].op = "store"
    /\ calls[2].res.kind = "err"
    /\ calls[2].id = calls[1].id
    /\ Exists(blocks, calls[1].id)
    /\ LoadNow(calls[1].id).val.val # calls[2].data

\* C9: num_blocks is the number of ids that exist by the results the
\* callers got (try_create true, store ok, and no remove true since); a
\* store over a block, a try_create false and a remove false leave it
\* unchanged, and writes still in flight are not counted.
C9_NumBlocks == NumBlocksOf(blocks) = Ok(Cardinality(oracle))

\* One block is stored; a store of it and a try_create of the other id are
\* in flight, the latter past its lookup.
C9_Witness ==
    /\ NumBlocksOf(blocks) = Ok(1)
    /\ Exists(blocks, "A")
    /\ calls[1].pc = "awaiting" /\ calls[1].op = "store" /\ calls[1].id = "A"
    /\ calls[2].pc = "checked" /\ calls[2].id = "B"

\* C10: load of an id that does not exist (never created, or removed) is
\* the successful result none, not an error.
C10_LoadAbsent ==
    (last.op = "load" /\ last.id \notin oracle) =>
        /\ last.res.kind = "ok"
        /\ last.res = Ok(None)

\* A load of an id just removed, while another block exists.
C10_Witness ==
    /\ last.op = "load"
    /\ last.after_remove_of = last.id
    /\ last.res = Ok(None)
    /\ \E id \in BlockIds : Exists(blocks, id)

\* The layers of a stack in another order.
Reordered(layers) ==
    {[i \in 1..Len(layers) |-> layers[f[i]]] :
        f \in {g \in [1..Len(layers) -> 1..Len(layers)] :
                  \A i, j \in 1..Len(layers) : g[i] = g[j] => i = j}}

IsBlockSizeProbe == probe.fn = "block_size_from_physical_block_size"

\* C11: through a stack of layers with overheads o_1..o_N, in any order,
\* block_size_from_physical_block_size(physical) is physical - sum(o_i),
\* the value the layers give one after the other.
C11_ComposedOverhead ==
    IsBlockSizeProbe =>
        LET layers == probe.arg.layers
            size == probe.arg.size
        IN  /\ size > SumOverheads(layers) =>
                  probe.out = Ok(size - SumOverheads(layers))
            /\ probe.out.kind = "ok" =>
                  probe.out.val = size - SumOverheads(layers)
            /\ \A other \in Reordered(layers) :
                  StackBlockSize(other, size) = probe.out

\* Three layers with three different overheads and a size that leaves a
\* usable rest.
C11_Witness ==
    /\ IsBlockSizeProbe
    /\ Len(probe.arg.layers) = MaxLayers
    /\ Cardinality({probe.arg.layers[i] : i \in 1..MaxLayers}) = 3
    /\ probe.out.kind = "ok"
    /\ probe.out = Ok(probe.arg.size - SumOverheads(probe.arg.layers))

\* The size layer k of the stack is given.
RECURSIVE SizeGivenTo(_, _, _)
SizeGivenTo(layers, size, k) ==
    IF k = 1 THEN size
    ELSE SizeGivenTo(layers, size, k - 1) - layers[k - 1]

\* C12: if some layer of the stack is given a size smaller than its
\* overhead, the call at the top fails with a configuration error; a
\* success is never a wrapped-around or non-positive size.
C12_ConfigurationError ==
    IsBlockSizeProbe =>
        LET layers == probe.arg.layers
            size == probe.arg.size
        IN  /\ (\E k \in 1..Len(layers) :
                    SizeGivenTo(layers, size, k) < layers[k]) =>
                  probe.out = Err("ConfigurationError")
            /\ probe.out.kind = "ok" =>
                  /\ probe.out.val > 0
                  /\ probe.out.val <= size
            /\ probe.out.kind \in {"ok", "err"}

\* The innermost of three layers is the one given less than its overhead.
C12_Witness ==
    /\ IsBlockSizeProbe
    /\ Len(probe.arg.layers) = MaxLayers
    /\ \A k \in 1..(MaxLayers - 1) :
          SizeGivenTo(probe.arg.layers, probe.arg.size, k) > probe.arg.layers[k]
    /\ SizeGivenTo(probe.arg.layers, probe.arg.size, MaxLayers) <
          probe.arg.layers[MaxLayers]
    /\ probe.out = Err("ConfigurationError")

\* C13: whatever the number and order of the layers over the physical
\* backend, every try_create, store, remove, load and num_blocks at the top
\* of the stack returns what the same call returns on a plain map from
\* BlockId to bytes.
C13_UniformStore ==
    /\ stack.res = stack.expect
    /\ \A id \in BlockIds :
          StackLoad(stack.layers, stack.inner, id) = MapLoad(stack.map, id)
    /\ StackNumBlocks(stack.layers, stack.inner) = MapNumBlocks(stack.map)

\* A load through an integrity layer over an encryption layer returned the
\* bytes stored, which lie transformed in the physical backend.
C13_Witness ==
    /\ stack.layers = <<"integrity", "encrypted">>
    /\ stack.op = "load"
    /\ stack.res = Ok(Some(<<0, 1>>))
    /\ Payload(stack.inner[stack.id].bytes) # <<0, 1>>
    /\ \A id \in BlockIds : Exists(stack.inner, id)

\* What the call of caller p returns, and leaves of its block, when run alone
\* on a plain map holding the block its id had when the call was made.
AloneOutcome(p) ==
    LET before == [EmptyMap EXCEPT ![calls[p].id] =
                      LoadBlock([EmptyStore EXCEPT ![calls[p].id] =
                                    calls[p].start], calls[p].id, "ok").val]
        r == IF calls[p].op = "try_create"
             THEN MapTryCreate(before, calls[p].id, calls[p].data)
             ELSE IF calls[p].op = "store"
             THEN MapStore(before, calls[p].id, calls[p].data)
             ELSE MapRemove(before, calls[p].id)
    IN  [res |-> r.res, block |-> Ok(r.map[calls[p].id])]

\* C14: a try_create, store or remove of id A never changes what load(B)
\* returns for another id B, and a call that overlaps only calls of other
\* ids returns, and leaves of its block, what it does when run alone, in
\* every interleaving.
C14_Step ==
    \A p \in Procs :
        calls'[p] # calls[p] =>
            /\ \A id \in BlockIds \ {calls'[p].id} :
                  calls'[p].pc # "idle" =>
                      LoadBlock(blocks', id, "ok") = LoadBlock(blocks, id, "ok")
            /\ (Resolves(p) /\ calls[p].alone /\ calls'[p].res.kind = "ok") =>
                  /\ calls'[p].res = AloneOutcome(p).res
                  /\ LoadBlock(blocks', calls[p].id, "ok") = AloneOutcome(p).block

C14_DistinctIdsIndependent == [][C14_Step]_vars

\* A store of A returned while a try_create of B, begun before it, is
\* still between its lookup and its write; both blocks end up stored.
C14_Witness ==
    /\ calls[1].pc = "returned" /\ calls[1].op = "store"
    /\ calls[1].id = "A" /\ calls[1].alone /\ calls[1].res.kind = "ok"
    /\ calls[1].start = Absent
    /\ calls[2].pc = "checked" /\ calls[2].id = "B" /\ calls[2].alone
    /\ LoadNow("A") = Ok(Some(calls[1].data))
    /\ LoadNow("B") = Ok(None)

AllocatedViewLen(size) == Len(AsRef(Allocate(size)))

\* C15: when allocate(len(bytes)) returns a buffer whose view has another
\* length than the bytes, try_create and store end in the assertion
\* failure, having made no optimized call and left the store as it was;
\* whenever the optimized call is made, the view of the buffer it is given
\* is exactly the caller's bytes.
C15_LengthCheckFirst ==
    last.op \in {"try_create", "store"} =>
        /\ AllocatedViewLen(Len(last.data)) # Len(last.data) =>
              /\ last.res = Panic
              /\ last.log = <<>>
              /\ blocks = last.pre
        /\ last.log # <<>> =>
              /\ Len(last.log) = 1
              /\ AsRef(last.log[1].data) = last.data

\* store of two bytes on a backend that allocates three: assertion failure.
C15_Witness ==
    /\ alloc_skew = 1
    /\ last.op = "store"
    /\ Len(last.data) = MaxLen
    /\ AllocatedViewLen(Len(last.data)) = MaxLen + 1
    /\ last.res = Panic
    /\ last.log = <<>>

DataPrefix(d) == SubSeq(d.storage, 1, d.start)

\* C16: the view of a wrapper is exactly the visible view of the Data it
\* wraps, without the hidden prefix; a write through the mutable view
\* leaves the length of the view, the prefix capacity and the prefix
\* bytes as they were; extract gives back the wrapped Data, so that
\* extract(new(d)) = d.
C16_WrapperInvariant ==
    /\ probe.fn = "new" =>
          /\ AsRef(probe.out) = DataView(probe.arg.d)
          /\ Len(AsRef(probe.out)) = Len(probe.arg.d.storage) - probe.arg.d.start
    /\ probe.fn = "as_mut" =>
          /\ AsRef(probe.out) = probe.arg.src
          /\ Len(AsRef(probe.out)) = Len(DataView(probe.arg.d))
          /\ probe.out.inner.start = probe.arg.d.start
          /\ DataPrefix(probe.out.inner) = DataPrefix(probe.arg.d)
    /\ probe.fn = "extract" =>
          /\ DataView(probe.out) = AsRef(probe.arg.bd)
          /\ probe.out.start = probe.arg.d.start
          /\ DataPrefix(probe.out) = DataPrefix(probe.arg.d)
          /\ ~probe.arg.written => probe.out = probe.arg.d

\* A Data with a hidden prefix, wrapped and extracted again unwritten.
C16_Witness ==
    /\ probe.fn = "extract"
    /\ ~probe.arg.written
    /\ probe.arg.d.start = HeaderLen
    /\ Len(DataView(probe.arg.d)) = MaxLen
    /\ DataPrefix(probe.arg.d) # [i \in 1..HeaderLen |-> 0]
    /\ probe.out = probe.arg.d

\* C18: create_block_data_wrapper!(name) generates the wrapper type, its
\* AsRef and AsMut impls and its IBlockData impl all for the type called
\* name.
C18_GeneratedForName ==
    probe.fn = "create_block_data_wrapper" =>
        \A it \in probe.out : it.target = probe.arg

Finished == {"idle", "returned", "cancelled"}

\* C17: a try_create or store allocates one BlockData of its own, filled
\* from the caller's bytes, passes it to one optimized call and holds no
\* buffer once that call has returned, failed or been dropped; no buffer
\* is ever exchanged for another, and the caller's bytes stay as given.
C17_Step ==
    \A p \in Procs :
        /\ calls[p].pc \in InFlight => calls'[p].data = calls[p].data
        /\ calls'[p].buf # calls[p].buf =>
              \/ /\ calls[p].pc = "called"
                 /\ calls[p].buf = NoBuf
                 /\ calls[p].handed = 0
                 /\ calls'[p].buf =
                       CopyFromSlice(Allocate(Len(calls[p].data)), calls[p].data)
                 /\ calls'[p].handed = 1
              \/ /\ calls'[p].buf = NoBuf
                 /\ calls'[p].pc \in Finished
        /\ calls'[p].handed <= 1
        /\ calls'[p].pc \in Finished => calls'[p].buf = NoBuf
        /\ (Resolves(p) /\ calls[p].op \in {"try_create", "store"}
              /\ calls'[p].res # Panic) => calls'[p].handed = 1

C17_Ownership == [][C17_Step]_vars

\* A store that failed and one that succeeded, both returned: neither
\* holds its buffer any more, each had passed one to one optimized call.
C17_Witness ==
    /\ calls[1].pc = "returned" /\ calls[1].op = "store"
    /\ calls[1].res = Err("IoError")
    /\ calls[2].pc = "returned" /\ calls[2].op = "store"
    /\ calls[2].res = Ok("unit")
    /\ \A p \in Procs :
          calls[p].handed = 1 /\ calls[p].buf = NoBuf /\ calls[p].data # <<>>

====
